---- MODULE Spec2Model ----
(***************************************************************************)
(* The task service of app/: the pydantic schemas (schemas/task.py), the   *)
(* tasks table (models/task.py), TaskService (services/task_service.py)    *)
(* and the routes of routers/tasks.py, as a state machine over the table.  *)
(*                                                                         *)
(* A request body is validated before its handler runs.  list, create and  *)
(* get touch the table at one point and are one step each.  update and     *)
(* delete first SELECT the row and later flush and commit, so each is two  *)
(* steps (its read, then its commit with the refresh that follows it).     *)
(* A route is a coroutine that never awaits, so one server process runs a  *)
(* handler without interruption; the steps of requests interleave between  *)
(* the server processes (workers) that share the database.                 *)
(* The table is kept in primary-key order, the order in which the store    *)
(* scans it for a query that names no ORDER BY.                            *)
(***************************************************************************)
EXTENDS Integers, Sequences, FiniteSets

\* ------------------------------------------------------------------ bounds
\* The creates, updates and deletes of existing tasks admitted in one run.
MaxRequests == 2

\* The server processes that handle requests side by side, each request in a
\* database session of its own.
Workers == {1, 2}

\* ------------------------------------------------------------- JSON values
Absent == [k |-> "absent", v |-> ""]
JNull == [k |-> "null", v |-> ""]
JNum == [k |-> "num", v |-> "7"]
Str(s) == [k |-> "str", v |-> s]

Body(t, d, s) == [title |-> t, description |-> d, status |-> s]

\* The request bodies sent: a title alone, a title with one more field, and
\* bodies with the title missing, a title that is no string, a status that is
\* no member of the enumeration.
RawBodies ==
    {Body(Str("a"), Absent, Absent),
     Body(Str("a"), Str("x"), Absent),
     Body(Str("a"), Absent, Str("PENDING")),
     Body(Str("a"), Absent, Str("COMPLETED")),
     Body(Absent, Str("x"), Absent),
     Body(JNum, Absent, Absent),
     Body(Str("a"), Absent, Str("DONE"))}

NoBody == Body(Absent, Absent, Absent)

\* ------------------------------------------------------------------ schema
TaskStatus == {"PENDING", "IN_PROGRESS", "COMPLETED"}

NoTime == 0

Fields == {"title", "description", "status"}

\* The fields of a body that fail TaskBase's validation.
ValidationErrorsAnyStatus(raw) ==
    {f \in Fields :
        \/ f = "title" /\ raw.title.k # "str"
        \/ f = "description" /\ raw.description.k \notin {"absent", "null", "str"}
        \/ f = "status" /\ raw.status.k \notin {"absent", "str"}}

ValidationErrors(raw) ==
    {f \in Fields :
        \/ f = "title" /\ raw.title.k # "str"
        \/ f = "description" /\ raw.description.k \notin {"absent", "null", "str"}
        \/ f = "status" /\ raw.status.k # "absent"
                        /\ ~(raw.status.k = "str" /\ raw.status.v \in TaskStatus)}

\* The validated model of a body: defaults filled in, the supplied fields kept.
TaskBase(raw) ==
    [title |-> raw.title.v,
     description |-> IF raw.description.k = "str" THEN raw.description ELSE JNull,
     status |-> IF raw.status.k = "absent" THEN "PENDING" ELSE raw.status.v,
     fields_set |-> {f \in Fields : raw[f].k # "absent"}]

\* task.dict(): every field, defaults included.
dict(task) == Fields

\* task.dict(exclude_unset=True): the fields the body supplied.
dict_exclude_unset(task) == task.fields_set

TaskResponse(row) ==
    [id |-> row.id, title |-> row.title, description |-> row.description,
     status |-> row.status, created_at |-> row.created_at,
     updated_at |-> row.updated_at]

\* ------------------------------------------------------------------- state
VARIABLES
    store,      \* the tasks table: its rows, in primary-key order
    next_id,    \* the table's AUTO_INCREMENT counter
    now,        \* the store's clock, read by func.now()
    admitted,   \* the creates, updates and deletes admitted so far
    req,        \* per worker: the update or delete between its read and its commit
    resp,       \* the response the last step sent (op "none": it sent none),
                \* with the body of the request it answers
    pristine,   \* history: id, title, description, status as returned by the
                \* create of each task no update has written and no delete removed
    born,       \* history: id and created_at of every task ever inserted
    written,    \* history: ids an UPDATE statement has been committed for
    deleted,    \* history: ids a delete has been committed for
    listed      \* history: the ids of the first list since the last create or delete

vars ==
    <<store, next_id, now, admitted, req, resp, pristine, born, written, deleted, listed>>

\* The ids a request may name: those assigned so far and the next one.
TaskIds == 1..next_id

NoRow ==
    [id |-> 0, title |-> "", description |-> JNull, status |-> "",
     created_at |-> NoTime, updated_at |-> NoTime]

NoTask == [title |-> "", description |-> JNull, status |-> "", fields_set |-> {}]

Idle == [op |-> "idle", id |-> 0, body |-> NoBody, task |-> NoTask, snap |-> NoRow]

NoResp ==
    [op |-> "none", id |-> 0, code |-> 0, detail |-> "", body |-> NoBody,
     tasks |-> <<>>, wrote |-> {}, stale |-> FALSE]

Response(op, id, code, detail, tasks) ==
    [op |-> op, id |-> id, code |-> code, detail |-> detail, body |-> NoBody,
     tasks |-> tasks, wrote |-> {}, stale |-> FALSE]

\* FastAPI's answer to a body that fails validation.
RequestValidationError(op, id, raw) ==
    [Response(op, id, 422, "Unprocessable Entity", <<>>) EXCEPT !.body = raw]

HTTPException404(op, id) == Response(op, id, 404, "Task not found", <<>>)

\* An exception no handler catches: the runtime's generic 500.
InternalServerError(op, id) == Response(op, id, 500, "Internal Server Error", <<>>)

Ids(st) == [i \in 1..Len(st) |-> st[i].id]

IdSet(st) == {st[i].id : i \in 1..Len(st)}

\* A request that has read its row goes to the first worker that is free.
Free(w) == req[w] = Idle /\ \A v \in Workers : v < w => req[v] # Idle

NotListed == [valid |-> FALSE, ids |-> <<>>, updated |-> FALSE]

\* ------------------------------------------------------------- the session
\* db.query(Task).all(), ordered by updated_at instead of as scanned.
get_all_tasks_recent_first(st) ==
    SelectSeq(st, LAMBDA r : r.updated_at # NoTime)
        \o SelectSeq(st, LAMBDA r : r.updated_at = NoTime)

\* db.query(Task).all()
get_all_tasks(st) == st

\* A query by position in the table instead of by key.
get_task_by_offset(st, task_id) ==
    IF task_id \in 1..Len(st) THEN st[task_id] ELSE NoRow

\* db.query(Task).filter(Task.id == task_id).first(); NoRow stands for None.
get_task(st, task_id) ==
    LET rows == SelectSeq(st, LAMBDA r : r.id = task_id)
    IN IF rows = <<>> THEN NoRow ELSE Head(rows)

\* Task(**task.dict()) with the status left to the column default.
NewTaskDefaultStatus(task, id, t) ==
    [id |-> id, title |-> task.title, description |-> task.description,
     status |-> "PENDING", created_at |-> t, updated_at |-> NoTime]

\* Task(**task.dict()) as inserted: the store assigns id and created_at.
NewTask(task, id, t) ==
    [id |-> id,
     title |-> IF "title" \in dict(task) THEN task.title ELSE "",
     description |-> IF "description" \in dict(task) THEN task.description ELSE JNull,
     status |-> IF "status" \in dict(task) THEN task.status ELSE "PENDING",
     created_at |-> t, updated_at |-> NoTime]

\* The attributes whose value setattr changed: the columns the flush writes.
Dirty(task, snap) ==
    {f \in dict_exclude_unset(task) :
        \/ f = "title" /\ task.title # snap.title
        \/ f = "description" /\ task.description # snap.description
        \/ f = "status" /\ task.status # snap.status}

\* updated_at's onupdate left out.
OnUpdateNone(row, t) == row

\* updated_at's onupdate touching created_at too.
OnUpdateBoth(row, t) == [row EXCEPT !.updated_at = t, !.created_at = t]

\* onupdate=func.now(): what an UPDATE statement adds to the columns it sets.
OnUpdate(row, t) == [row EXCEPT !.updated_at = t]

\* The row an UPDATE leaves: the dirty columns set, onupdate applied.
SetColumns(row, task, dirty, t) ==
    OnUpdate([row EXCEPT
                !.title = IF "title" \in dirty THEN task.title ELSE @,
                !.description = IF "description" \in dirty THEN task.description ELSE @,
                !.status = IF "status" \in dirty THEN task.status ELSE @], t)

\* UPDATE tasks SET ... WHERE tasks.id = :id
UpdateWhere(row, snap) == row.id = snap.id

\* A flush that inserts the loaded task again when its row is gone.
FlushMerge(st, snap, task, t) ==
    LET dirty == Dirty(task, snap)
        hit == {i \in 1..Len(st) : UpdateWhere(st[i], snap)}
    IN IF dirty = {} THEN [store |-> st, ok |-> TRUE, emitted |-> FALSE]
       ELSE IF hit = {}
            THEN [store |-> Append(st, SetColumns(snap, task, dirty, t)),
                  ok |-> TRUE, emitted |-> TRUE]
            ELSE [store |-> [i \in 1..Len(st) |->
                                IF i \in hit THEN SetColumns(st[i], task, dirty, t)
                                ELSE st[i]],
                  ok |-> TRUE, emitted |-> TRUE]

\* db.commit() of update_task: the flush emits an UPDATE of the dirty columns,
\* or nothing when none is dirty; an UPDATE that matches no row raises
\* StaleDataError and the transaction is rolled back.
Flush(st, snap, task, t) ==
    LET dirty == Dirty(task, snap)
        hit == {i \in 1..Len(st) : UpdateWhere(st[i], snap)}
    IN IF dirty = {} THEN [store |-> st, ok |-> TRUE, emitted |-> FALSE]
       ELSE IF hit = {} THEN [store |-> st, ok |-> FALSE, emitted |-> FALSE]
            ELSE [store |-> [i \in 1..Len(st) |->
                                IF i \in hit THEN SetColumns(st[i], task, dirty, t)
                                ELSE st[i]],
                  ok |-> TRUE, emitted |-> TRUE]

\* db.delete(db_task); db.commit(): DELETE FROM tasks WHERE tasks.id = :id.
\* A DELETE that matches no row only warns.
FlushDelete(st, snap) == SelectSeq(st, LAMBDA r : r.id # snap.id)

Views(rows) == [i \in 1..Len(rows) |-> TaskResponse(rows[i])]

Summary(view) ==
    [id |-> view.id, title |-> view.title, description |-> view.description,
     status |-> view.status]

\* -------------------------------------------------------------------- Init
\* create_all keeps a table that exists: the service starts on an empty table,
\* or on the table an earlier run left, here with one task as its create left it.
InitialStores ==
    {<<>>,
     <<[id |-> 1, title |-> "a", description |-> Str("x"), status |-> "COMPLETED",
        created_at |-> 1, updated_at |-> NoTime]>>}

Init ==
    /\ store \in InitialStores
    /\ next_id = Len(store) + 1
    /\ now = Len(store) + 1
    /\ admitted = 0
    /\ req = [w \in Workers |-> Idle]
    /\ resp = NoResp
    /\ pristine = {Summary(store[i]) : i \in 1..Len(store)}
    /\ born = {[id |-> store[i].id, created_at |-> store[i].created_at] :
                    i \in 1..Len(store)}
    /\ written = {}
    /\ deleted = {}
    /\ listed = NotListed

\* ------------------------------------------------------------- GET /tasks/
GetTasks ==
    /\ LET rows == get_all_tasks(store)
       IN /\ resp' = Response("list", 0, 200, "", Views(rows))
          /\ listed' = IF listed.valid THEN listed
                       ELSE [valid |-> TRUE, ids |-> Ids(rows), updated |-> FALSE]
    /\ UNCHANGED <<store, next_id, now, admitted, req, pristine, born, written, deleted>>

\* ------------------------------------------------------------ POST /tasks/
CreateRejected(raw) ==
    /\ ValidationErrors(raw) # {}
    /\ resp' = RequestValidationError("create", 0, raw)
    /\ UNCHANGED <<store, next_id, now, admitted, req, pristine, born, written, deleted, listed>>

\* create_task: add, commit, refresh.
CreateTask(raw) ==
    /\ admitted < MaxRequests
    /\ ValidationErrors(raw) = {}
    /\ LET st == Append(store, NewTask(TaskBase(raw), next_id, now))
           fresh == get_task(st, next_id)
       IN /\ store' = st
          /\ resp' = [Response("create", fresh.id, 200, "", <<TaskResponse(fresh)>>)
                         EXCEPT !.body = raw]
          /\ pristine' = pristine \cup {Summary(fresh)}
          /\ born' = born \cup {[id |-> fresh.id, created_at |-> fresh.created_at]}
    /\ next_id' = next_id + 1
    /\ now' = now + 1
    /\ admitted' = admitted + 1
    /\ listed' = NotListed
    /\ UNCHANGED <<req, written, deleted>>

PostRequest(raw) == CreateRejected(raw) \/ CreateTask(raw)

\* ------------------------------------------------------ GET /tasks/{task_id}
GetTask(id) ==
    /\ LET task == get_task(store, id)
       IN resp' = IF task = NoRow THEN HTTPException404("get", id)
                  ELSE Response("get", id, 200, "", <<TaskResponse(task)>>)
    /\ UNCHANGED <<store, next_id, now, admitted, req, pristine, born, written, deleted, listed>>

\* ------------------------------------------------------ PUT /tasks/{task_id}
\* The body is validated before the route runs and before any row is looked up.
UpdateRejected(id, raw) ==
    /\ ValidationErrors(raw) # {}
    /\ resp' = RequestValidationError("update", id, raw)
    /\ UNCHANGED <<store, next_id, now, admitted, req, pristine, born, written, deleted, listed>>

\* update_task finds no row: None, which the route turns into 404.
UpdateNotFound(id, raw) ==
    /\ ValidationErrors(raw) = {}
    /\ get_task(store, id) = NoRow
    /\ resp' = [HTTPException404("update", id) EXCEPT !.body = raw]
    /\ UNCHANGED <<store, next_id, now, admitted, req, pristine, born, written, deleted, listed>>

\* update_task loads the row; its setattr calls and its commit come later.
UpdateRead(w, id, raw) ==
    /\ admitted < MaxRequests
    /\ Free(w)
    /\ ValidationErrors(raw) = {}
    /\ get_task(store, id) # NoRow
    /\ req' = [req EXCEPT ![w] = [op |-> "update", id |-> id, body |-> raw,
                                  task |-> TaskBase(raw),
                                  snap |-> get_task(store, id)]]
    /\ resp' = NoResp
    /\ admitted' = admitted + 1
    /\ UNCHANGED <<store, next_id, now, pristine, born, written, deleted, listed>>

\* update_task's commit and refresh, and the route's answer.
UpdateCommit(w) ==
    /\ req[w].op = "update"
    /\ LET r == req[w]
           f == Flush(store, r.snap, r.task, now)
           fresh == get_task(f.store, r.id)
       IN /\ store' = f.store
          /\ now' = IF f.emitted THEN now + 1 ELSE now
          /\ resp' = IF ~f.ok \/ fresh = NoRow
                     THEN [InternalServerError("update", r.id) EXCEPT !.body = r.body]
                     ELSE [Response("update", r.id, 200, "", <<TaskResponse(fresh)>>)
                             EXCEPT !.body = r.body,
                                    !.wrote = IF f.emitted THEN Dirty(r.task, r.snap)
                                              ELSE {},
                                    !.stale = (get_task(store, r.id) # r.snap)]
          /\ written' = IF f.emitted THEN written \cup {r.id} ELSE written
          /\ pristine' = IF f.emitted THEN {p \in pristine : p.id # r.id} ELSE pristine
          /\ listed' = IF f.emitted /\ listed.valid THEN [listed EXCEPT !.updated = TRUE]
                       ELSE listed
    /\ req' = [req EXCEPT ![w] = Idle]
    /\ UNCHANGED <<next_id, admitted, born, deleted>>

PutRequest(id, raw) ==
    \/ UpdateRejected(id, raw)
    \/ UpdateNotFound(id, raw)
    \/ \E w \in Workers : UpdateRead(w, id, raw)

\* --------------------------------------------------- DELETE /tasks/{task_id}
\* delete_task finds no row: False, which the route turns into 404.
DeleteNotFound(id) ==
    /\ get_task(store, id) = NoRow
    /\ resp' = HTTPException404("delete", id)
    /\ UNCHANGED <<store, next_id, now, admitted, req, pristine, born, written, deleted, listed>>

DeleteRead(w, id) ==
    /\ admitted < MaxRequests
    /\ Free(w)
    /\ get_task(store, id) # NoRow
    /\ req' = [req EXCEPT ![w] = [op |-> "delete", id |-> id, body |-> NoBody,
                                  task |-> NoTask,
                                  snap |-> get_task(store, id)]]
    /\ resp' = NoResp
    /\ admitted' = admitted + 1
    /\ UNCHANGED <<store, next_id, now, pristine, born, written, deleted, listed>>

\* delete_task's delete and commit: True, and the route's message.
DeleteCommit(w) ==
    /\ req[w].op = "delete"
    /\ store' = FlushDelete(store, req[w].snap)
    /\ deleted' = deleted \cup {req[w].id}
    /\ pristine' = {p \in pristine : p.id # req[w].id}
    /\ listed' = NotListed
    /\ resp' = Response("delete", req[w].id, 200, "Task deleted successfully", <<>>)
    /\ req' = [req EXCEPT ![w] = Idle]
    /\ UNCHANGED <<next_id, now, admitted, born, written>>

DeleteRequest(id) ==
    \/ DeleteNotFound(id)
    \/ \E w \in Workers : DeleteRead(w, id)

\* -------------------------------------------------------------------- Next
Next ==
    \/ GetTasks
    \/ \E raw \in RawBodies : CreateRejected(raw)
    \/ \E raw \in RawBodies : CreateTask(raw)
    \/ \E id \in TaskIds : GetTask(id)
    \/ \E id \in TaskIds, raw \in RawBodies : UpdateRejected(id, raw)
    \/ \E id \in TaskIds, raw \in RawBodies : UpdateNotFound(id, raw)
    \/ \E w \in Workers, id \in TaskIds, raw \in RawBodies : UpdateRead(w, id, raw)
    \/ \E w \in Workers : UpdateCommit(w)
    \/ \E id \in TaskIds : DeleteNotFound(id)
    \/ \E w \in Workers, id \in TaskIds : DeleteRead(w, id)
    \/ \E w \in Workers : DeleteCommit(w)

Spec == Init /\ [][Next]_vars

\* ------------------------------------------------------------------ claims
\* The row of st with the given id, NoRow when st has none.
RowOf(st, id) ==
    IF \E i \in 1..Len(st) : st[i].id = id
    THEN st[CHOOSE i \in 1..Len(st) : st[i].id = id]
    ELSE NoRow

Literals == {"PENDING", "IN_PROGRESS", "COMPLETED"}

\* A body the schema's words admit: a string title, a status that is a literal.
WellFormed(raw) ==
    /\ raw.title.k = "str"
    /\ raw.description.k \in {"absent", "null", "str"}
    /\ raw.status.k = "absent" \/ (raw.status.k = "str" /\ raw.status.v \in Literals)

Supplied(raw) == {f \in Fields : raw[f].k # "absent"}

\* The value a body supplies for field f, as a row holds it.
Sent(raw, f) == IF f = "description" THEN raw.description ELSE raw[f].v

\* Worker w's update commits in this step, on a task that is in the store.
UpdateCommits(w) ==
    /\ req[w].op = "update"
    /\ req'[w] = Idle
    /\ RowOf(store, req[w].id) # NoRow

\* C4: once a delete of an id has committed, the id is in the store in no
\* later state, a GET of it answers 404, and the delete itself answered 200
\* with its row gone; this whatever ran in between, an update that had read
\* the task before the delete committed included.
C4_DeletedStaysDeleted ==
    /\ \A id \in deleted : id \notin IdSet(store)
    /\ (resp.op = "get" /\ resp.id \in deleted) => resp.code = 404
    /\ (resp.op = "delete" /\ resp.code # 404) =>
            /\ resp.code = 200
            /\ resp.detail = "Task deleted successfully"
            /\ resp.id \in deleted
            /\ RowOf(store, resp.id) = NoRow

\* An update that read the task before its delete committed has committed after it.
C4_Witness ==
    /\ resp.op = "update"
    /\ resp.code = 500
    /\ resp.id \in deleted
    /\ RowOf(store, resp.id) = NoRow

\* C5: a list answers 200 with exactly the tasks created and not deleted,
\* each as stored and each id once, and in the order of the first list since
\* the last create or delete.
C5_ListIsExactAndStable ==
    resp.op = "list" =>
        /\ resp.code = 200
        /\ {resp.tasks[i].id : i \in 1..Len(resp.tasks)} = {b.id : b \in born} \ deleted
        /\ \A i, j \in 1..Len(resp.tasks) :
                resp.tasks[i].id = resp.tasks[j].id => i = j
        /\ \A i \in 1..Len(resp.tasks) :
                resp.tasks[i] = TaskResponse(RowOf(store, resp.tasks[i].id))
        /\ listed.valid
        /\ [i \in 1..Len(resp.tasks) |-> resp.tasks[i].id] = listed.ids

\* A second list of two tasks, an update having been committed since the first.
C5_Witness ==
    /\ resp.op = "list"
    /\ listed.updated
    /\ Len(resp.tasks) = 2
    /\ resp.tasks[2].updated_at # NoTime

\* C7: no two rows have the same id, every row has the id and the created_at
\* it was inserted with, no id was ever inserted twice, and an update answers
\* with the id it was asked for and that task's created_at.
C7_IdAndCreatedAtAreStable ==
    /\ \A i, j \in 1..Len(store) : store[i].id = store[j].id => i = j
    /\ \A i \in 1..Len(store) :
            [id |-> store[i].id, created_at |-> store[i].created_at] \in born
    /\ \A b, c \in born : b.id = c.id => b = c
    /\ (resp.op = "update" /\ resp.code = 200) =>
            /\ resp.tasks[1].id = resp.id
            /\ [id |-> resp.id, created_at |-> resp.tasks[1].created_at] \in born

\* An update has written a task while the store holds two.
C7_Witness ==
    /\ resp.op = "update"
    /\ resp.code = 200
    /\ resp.wrote # {}
    /\ Len(store) = 2

\* C9 as stated: updated_at is null on a task until an update of it succeeds,
\* and every update that answers 200 leaves it set, whatever values it supplied.
C9_Original ==
    /\ \A i \in 1..Len(store) :
            store[i].id \notin written => store[i].updated_at = NoTime
    /\ (resp.op = "create" /\ resp.code = 200) => resp.tasks[1].updated_at = NoTime
    /\ (resp.op = "update" /\ resp.code = 200) =>
            /\ resp.tasks[1].updated_at # NoTime
            /\ RowOf(store, resp.id).updated_at # NoTime

\* C9: updated_at is null from the create until the first update that changes
\* a supplied field from the value the update read, and set from then on; an
\* update that changes none answers 200 and leaves updated_at as it was.
C9_UpdatedAtSetByWritingUpdates ==
    /\ \A i \in 1..Len(store) :
            store[i].updated_at = NoTime <=> store[i].id \notin written
    /\ (resp.op = "create" /\ resp.code = 200) => resp.tasks[1].updated_at = NoTime
    /\ (resp.op = "update" /\ resp.code = 200) =>
            /\ resp.wrote # {} => resp.tasks[1].updated_at # NoTime
            /\ resp.tasks[1].updated_at = NoTime <=> resp.id \notin written
            /\ resp.tasks[1].updated_at = RowOf(store, resp.id).updated_at

\* An update whose supplied values equal the stored ones has answered 200 and
\* the task's updated_at is still null.
C9_Witness ==
    /\ resp.op = "update"
    /\ resp.code = 200
    /\ resp.wrote = {}
    /\ Supplied(resp.body) # {}
    /\ resp.tasks[1].updated_at = NoTime

BadTitleOrStatus(raw) ==
    \/ raw.title.k # "str"
    \/ raw.status.k # "absent" /\ ~(raw.status.k = "str" /\ raw.status.v \in Literals)

StatusIsLiteral ==
    /\ \A i \in 1..Len(store) : store[i].status \in Literals
    /\ \A i \in 1..Len(resp.tasks) : resp.tasks[i].status \in Literals

BadBodiesRejected ==
    /\ (resp.op \in {"create", "update"} /\ BadTitleOrStatus(resp.body)) => resp.code = 422
    /\ \A w \in Workers : req[w].op = "update" => ~BadTitleOrStatus(req[w].body)

\* C10: every stored and every returned status is one of the three literals;
\* a create or update whose status is another value, or whose title is
\* missing or no string, answers 422 and is taken up by no worker, and a step
\* that answers 422 changes neither the table nor its counter.
C10_StatusValidated ==
    /\ [](StatusIsLiteral /\ BadBodiesRejected)
    /\ [][resp'.code = 422 => UNCHANGED <<store, next_id, req>>]_vars

\* An update with a status outside the enumeration has been rejected while
\* the store holds a task.
C10_Witness ==
    /\ resp.op = "update"
    /\ resp.code = 422
    /\ resp.body.status = Str("DONE")
    /\ RowOf(store, resp.id) # NoRow

\* This step answers a GET, PUT or DELETE of id at once: no worker took the
\* request up and none finished one.
AnswersAtOnce(id) ==
    /\ resp'.op \in {"get", "update", "delete"}
    /\ resp'.id = id
    /\ req' = req

\* This step has a worker take up an update or delete of id.
TakesUp(id) == \E w \in Workers : req[w] = Idle /\ req'[w] # Idle /\ req'[w].id = id

\* C3 as stated: a GET, PUT or DELETE of an id that is not in the store
\* answers 404 "Task not found" whatever its body and changes no row.
C3_Original ==
    [][\A id \in TaskIds : RowOf(store, id) = NoRow =>
            /\ ~TakesUp(id)
            /\ AnswersAtOnce(id) =>
                    /\ resp'.code = 404
                    /\ resp'.detail = "Task not found"
                    /\ store' = store]_vars

\* C3: a GET or DELETE of an id that is not in the store, and a PUT of it
\* whose body passes validation, answers 404 "Task not found"; a PUT of it
\* whose body fails validation answers 422; none changes a row and no worker
\* takes the request up.
C3_AbsentIdAnswers404Or422 ==
    [][\A id \in TaskIds : RowOf(store, id) = NoRow =>
            /\ ~TakesUp(id)
            /\ AnswersAtOnce(id) =>
                    /\ IF resp'.op = "update" /\ ~WellFormed(resp'.body)
                       THEN resp'.code = 422
                       ELSE resp'.code = 404 /\ resp'.detail = "Task not found"
                    /\ store' = store]_vars

\* A PUT of a deleted id with a body that fails validation has answered 422.
C3_Witness ==
    /\ resp.op = "update"
    /\ resp.code = 422
    /\ resp.id \in deleted
    /\ RowOf(store, resp.id) = NoRow

\* C2 as stated: a PUT of a task in the store whose body holds a description
\* and nothing else answers 200, stores that description and writes neither
\* the title nor the status.
C2_Original ==
    (/\ resp.op = "update"
     /\ Supplied(resp.body) = {"description"}
     /\ RowOf(store, resp.id) # NoRow) =>
        /\ resp.code = 200
        /\ RowOf(store, resp.id).description = resp.body.description
        /\ resp.wrote \subseteq {"description"}
        /\ resp.tasks = <<TaskResponse(RowOf(store, resp.id))>>

\* C1 as stated: an update that commits on a task in the store leaves every
\* supplied field (a status of PENDING included) at the supplied value and
\* every other field as it was, and answers 200 with the task as then stored.
C1_Original ==
    [][\A w \in Workers : UpdateCommits(w) =>
            LET r == req[w]
                before == RowOf(store, r.id)
                after == RowOf(store', r.id)
            IN /\ after # NoRow
               /\ \A f \in Fields :
                    after[f] = IF f \in Supplied(r.body) THEN Sent(r.body, f)
                               ELSE before[f]
               /\ after.id = before.id
               /\ after.created_at = before.created_at
               /\ resp'.code = 200
               /\ resp'.tasks = <<TaskResponse(after)>>]_vars

\* C8 as stated: an update that commits on a task another update has written
\* since it read the task is answered 200, and the task then holds the fields
\* of this last update: its supplied values, the rest as the earlier one left them.
C8_Original ==
    [][\A w \in Workers :
            (UpdateCommits(w) /\ RowOf(store, req[w].id) # req[w].snap) =>
                LET r == req[w]
                    first == RowOf(store, r.id)
                    last == RowOf(store', r.id)
                IN /\ resp'.op = "update"
                   /\ resp'.code = 200
                   /\ \A f \in Supplied(r.body) : last[f] = Sent(r.body, f)
                   /\ \A f \in Fields \ Supplied(r.body) : last[f] = first[f]]_vars

====
